---- MODULE Spec2Model ----
(***************************************************************************)
(* State-machine model of the job-application assistant front end:         *)
(*   - GeneratorPage  (four-step generator flow, src/unnamed/part_001)     *)
(*   - DashboardPage  (list / delete, src/frontend/src/pages/...)          *)
(* Every event handler runs to its first await atomically; the code after  *)
(* an await (the try-continuation, catch and finally blocks) runs          *)
(* atomically when the response of that call arrives.  Calls in flight are *)
(* kept in the bag `pending`; each carries the values its handler captured *)
(* when it was invoked and that its reply or its continuation depends on.  *)
(* `sent` and `toasts` are what the most recent handler put on the wire    *)
(* and on the screen.                                                      *)
(***************************************************************************)
EXTENDS Integers, Sequences, FiniteSets, Bags, TLC

VARIABLES
    currentStep,    \* GeneratorPage: 1..4
    loading,        \* GeneratorPage: shared busy flag
    progress,       \* GeneratorPage: simulated progress percentage
    jobUrl,         \* GeneratorPage: content of the URL field
    jobAnalysis,    \* GeneratorPage: result of /analyze-job or Null
    resumeFile,     \* GeneratorPage: chosen file or Null
    resumeData,     \* GeneratorPage: result of /analyze-resume or Null
    coverLetter,    \* GeneratorPage: generated letter or EmptyLetter
    leaked,         \* setInterval timers never cleared, per increment
    applications,   \* DashboardPage: displayed list
    dashLoading,    \* DashboardPage: loading flag
    deleteId,       \* DashboardPage: id whose deletion is being confirmed
    selectedApp,    \* DashboardPage: record shown in the preview or Null
    showAuth,       \* LandingPage: the auth modal is open
    authMode,       \* LandingPage: mode handed to the modal as initialMode
    mode,           \* AuthModal: "login" or "register"
    authLoading,    \* AuthModal: its loading flag
    formData,       \* AuthModal: content of the form
    passwordEdited, \* password-input: its value was last changed by a user edit
    isAuthenticated,\* AuthContext: a user is signed in
    pending,        \* bag of HTTP calls in flight
    sent,           \* HTTP requests issued by the most recent handler
    toasts,         \* notifications emitted by the most recent handler
    savedAs,        \* file names the most recent handler offered for download
    called,         \* calls the most recent handler made on the router and its props
    route           \* page shown by the router

genVars  == <<currentStep, loading, progress, jobUrl,
              jobAnalysis, resumeFile, resumeData, coverLetter, leaked>>
dashVars == <<applications, dashLoading, deleteId, selectedApp>>
authVars == <<showAuth, authMode, mode, authLoading, formData, passwordEdited,
              isAuthenticated>>
vars     == <<currentStep, loading, progress, jobUrl,
              jobAnalysis, resumeFile, resumeData, coverLetter, leaked,
              applications, dashLoading, deleteId, selectedApp,
              showAuth, authMode, mode, authLoading, formData, passwordEdited,
              isAuthenticated,
              pending, sent, toasts, savedAs, called, route>>

----------------------------------------------------------------------------
(* Bounds of the model *)

MaxPending == 2
MaxLeaked == 1
MaxFiles == 1
MaxProgress == 5
MaxApps == 3

----------------------------------------------------------------------------
(* Values *)

Null == [null |-> TRUE]
Undefined == "<undefined>"
NullId == "<null>"
EmptyLetter == [kind |-> "cover_letter", text |-> ""]

\* What is typed into the auth form, as sequences of UTF-16 code units.
NameEva        == <<69, 118, 97>>                                \* Eva
EmailNoAt      == <<101, 118, 97>>                               \* eva
EmailNoDomain  == <<101, 118, 97, 64>>                           \* eva@
EmailEva       == <<101, 118, 97, 64, 101, 120, 97, 109, 112, 108, 101,
                    46, 111, 114, 103>>                          \* eva@example.org
PasswordShort  == <<97, 98, 99, 49, 50>>                         \* abc12
PasswordSecret == <<115, 101, 99, 114, 101, 116>>                \* secret

EmptyForm == [name |-> <<>>, email |-> <<>>, password |-> <<>>]
FilledForm == [name |-> NameEva, email |-> EmailEva, password |-> PasswordSecret]
LoginForm == [name |-> <<>>, email |-> EmailEva, password |-> PasswordSecret]

\* the inputs of the form and the values typed into each
FormFields == {"name", "email", "password"}
FieldInputs ==
    [name |-> {<<>>, NameEva},
     email |-> {<<>>, EmailNoAt, EmailNoDomain, EmailEva},
     password |-> {<<>>, PasswordShort, PasswordSecret}]

UrlA == "https://a.example/job"
UrlB == "https://b.example/job"
Urls == {UrlA, UrlB}
UrlInputs == Urls \cup {""}

\* File names are sequences of UTF-16 code units, as the strings of the
\* program are.
NameCvPdf     == <<99, 118, 46, 112, 100, 102>>                 \* cv.pdf
NameCvPDF     == <<67, 86, 46, 80, 68, 70>>                     \* CV.PDF
NameCvTxt     == <<99, 118, 46, 116, 120, 116>>                 \* cv.txt
NamePdf       == <<112, 100, 102>>                              \* pdf
NamePdfTxt    == <<97, 46, 112, 100, 102, 46, 116>>             \* a.pdf.t
NameResumeTXT == <<82, 201, 83, 85, 77, 201, 46, 84, 88, 84>>   \* RÉSUMÉ.TXT
NameIDotPd    == <<304, 46, 80, 68>>                            \* İ.PD
\* the names of the files offered to the upload: one that ends in .pdf once
\* it is in lower case, and five that do not
FileNames == {NameCvPDF, NameCvTxt, NamePdf, NamePdfTxt,
              NameResumeTXT, NameIDotPd}
Files == {[name |-> n] : n \in FileNames}

RECURSIVE SeqsUpTo(_, _)
SeqsUpTo(S, n) ==
    IF n = 0 THEN {<<>>}
    ELSE LET shorter == SeqsUpTo(S, n - 1)
         IN  shorter \cup {Append(s, e) : s \in {t \in shorter : Len(t) = n - 1}, e \in S}

FileLists == SeqsUpTo(Files, MaxFiles)

----------------------------------------------------------------------------
(* String helpers used by handleFileUpload *)

Between(c, first, last) == first <= c /\ c <= last

\* The code units the file names are written in: Basic Latin, Latin-1
\* Supplement, Latin Extended-A, and the Cyrillic letters U+0400..U+045F.
CodeUnits == 0..383 \cup 1024..1119

\* the lower-case form of each code unit, as String.prototype.toLowerCase
\* gives it; the capital I with a dot above (U+0130) becomes two code units,
\* i and the combining dot above (U+0307)
Fold ==
    [c \in CodeUnits |->
        CASE Between(c, 65, 90) -> <<c + 32>>
          [] Between(c, 192, 214) \/ Between(c, 216, 222) -> <<c + 32>>
          [] c = 304 -> <<105, 775>>
          [] c = 376 -> <<255>>
          [] c % 2 = 0 /\ (Between(c, 256, 303) \/ Between(c, 306, 311)
                             \/ Between(c, 330, 375)) -> <<c + 1>>
          [] c % 2 = 1 /\ (Between(c, 313, 328) \/ Between(c, 377, 382)) -> <<c + 1>>
          [] Between(c, 1024, 1039) -> <<c + 80>>
          [] Between(c, 1040, 1071) -> <<c + 32>>
          [] OTHER -> <<c>>]

\* the lower-case form of one code unit
LowerOf(c) == Fold[c]

\* a comparison that forgets to fold the case
toLowerCase_Identity(s) == s

RECURSIVE toLowerCase(_)
toLowerCase(s) ==
    IF s = <<>> THEN <<>> ELSE LowerOf(Head(s)) \o toLowerCase(Tail(s))

endsWith(s, suffix) ==
    /\ Len(s) >= Len(suffix)
    /\ SubSeq(s, Len(s) - Len(suffix) + 1, Len(s)) = suffix

DotPdf == <<46, 112, 100, 102>>  \* .pdf

isPdfName(name) == endsWith(toLowerCase(name), DotPdf)

----------------------------------------------------------------------------
(* The remote service: what a successful response carries *)

CompanyOf(url) == IF url = UrlA THEN "Acme" ELSE ""
TitleOf(url) == IF url = UrlA THEN "Engineer" ELSE "Analyst"

JobAnalysisOf(url) ==
    [kind |-> "job_analysis", url |-> url,
     company_name |-> CompanyOf(url), job_title |-> TitleOf(url)]

ResumeDataOf(file) == [kind |-> "resume_data", file |-> file.name]

CoverLetterOf(body) ==
    [kind |-> "cover_letter", job_analysis |-> body.job_analysis,
     resume_data |-> body.resume_data]

\* Application records as the backend lists them.
App1 == [id |-> "app-1", job_url |-> UrlA, company_name |-> "Acme",
         job_title |-> "Engineer", cover_letter |-> "Letter 1",
         job_analysis |-> JobAnalysisOf(UrlA),
         resume_data |-> ResumeDataOf([name |-> NameCvPdf])]
App2 == [id |-> "app-2", job_url |-> UrlB, company_name |-> "",
         job_title |-> "Analyst", cover_letter |-> "Letter 2",
         job_analysis |-> JobAnalysisOf(UrlB),
         resume_data |-> ResumeDataOf([name |-> NameCvPdf])]
App4 == [id |-> "app-4", job_url |-> UrlB, company_name |-> Undefined,
         job_title |-> "Analyst", cover_letter |-> "Letter 4",
         job_analysis |-> JobAnalysisOf(UrlB),
         resume_data |-> ResumeDataOf([name |-> NameCvPDF])]
Apps == {App1, App2, App4}

\* Lists GET /applications can return: no id occurs twice.
ServerLists ==
    {l \in SeqsUpTo(Apps, MaxApps) :
        \A i, j \in 1..Len(l) : i # j => l[i].id # l[j].id}

\* Failure responses: no response at all, a body without detail, a detail.
NoResponse == [response |-> FALSE, detail |-> ""]
NoDetail == [response |-> TRUE, detail |-> ""]
WithDetail == [response |-> TRUE, detail |-> "Dienst nicht erreichbar"]
Failures == {NoResponse, NoDetail, WithDetail}

\* a handler that ignores the body of the failure response
messageOf_GenericOnly(err, generic) == generic

\* error.response?.data?.detail || generic
messageOf(err, generic) ==
    IF err.response /\ err.detail # "" THEN err.detail ELSE generic

----------------------------------------------------------------------------
(* Calls in flight *)

Request(endpoint, body) == [endpoint |-> endpoint, body |-> body]

\* A call in flight. `page` is the page whose handler awaits the call, and
\* `mounted` tells whether that page is still mounted: React drops the state
\* updates of an unmounted component, the rest of the continuation runs all
\* the same.
Call(endpoint, captured) ==
    [endpoint |-> endpoint, captured |-> captured,
     page |-> route, mounted |-> TRUE]

\* What is left of a call when its page is unmounted. The continuation
\* still runs, but of the values it captured it only uses those that go into
\* a notification or a file name: the company name of a PDF download and
\* the mode of a sign-in. The others feed state updates, which are dropped.
Unmounted(call) ==
    [endpoint |-> call.endpoint,
     captured |-> CASE call.endpoint = "generate-pdf" ->
                         [company_name |-> call.captured.company_name]
                    [] call.endpoint \in {"login", "register"} ->
                         [mode |-> call.captured.mode]
                    [] OTHER -> [none |-> TRUE],
     page |-> call.page,
     mounted |-> FALSE]

\* the calls in flight once the page that issued them is unmounted
UnmountAll(calls) == BagOfAll(Unmounted, calls)

Outstanding == BagToSet(pending)
NumPending == BagCardinality(pending)
OutstandingOf(endpoint) == {r \in Outstanding : r.endpoint = endpoint}
CountOf(endpoint) ==
    BagCardinality([r \in OutstandingOf(endpoint) |-> pending[r]])

\* a call that aborts the calls issued before it
Issue_Aborting(endpoint, body, captured) ==
    /\ pending' = SetToBag({Call(endpoint, captured)})
    /\ sent' = <<Request(endpoint, body)>>

\* axios.post / axios.delete / axios.get followed by await
Issue(endpoint, body, captured) ==
    /\ pending' = pending (+) SetToBag({Call(endpoint, captured)})
    /\ sent' = <<Request(endpoint, body)>>

\* the awaited promise settles
Complete(r) ==
    /\ pending' = pending (-) SetToBag({r})
    /\ sent' = <<>>

NoRequest == UNCHANGED pending /\ sent' = <<>>

Toast(level, message) == [level |-> level, message |-> message]

\* the calls a handler makes on the router and on the props handed to it
Navigation(to) == [call |-> "navigate", to |-> to]
OnClose == [call |-> "onClose", to |-> ""]

Mounted == route = "/generator"

----------------------------------------------------------------------------
(* Navigation: the router unmounts the page shown and mounts the target *)

\* useState initial values of GeneratorPage
MountGenerator ==
    /\ currentStep' = 1
    /\ loading' = FALSE
    /\ progress' = 0
    /\ jobUrl' = ""
    /\ jobAnalysis' = Null
    /\ resumeFile' = Null
    /\ resumeData' = Null
    /\ coverLetter' = EmptyLetter
    /\ leaked' = [inc \in {5, 10} |-> 0]

\* useState initial values of DashboardPage
MountDashboard ==
    /\ applications' = <<>>
    /\ dashLoading' = TRUE
    /\ deleteId' = NullId
    /\ selectedApp' = Null

\* useState initial values of LandingPage and of its AuthModal
MountLanding ==
    /\ showAuth' = FALSE
    /\ authMode' = "login"
    /\ mode' = "login"
    /\ authLoading' = FALSE
    /\ formData' = EmptyForm
    /\ passwordEdited' = FALSE

\* navigate(to), with `calls` in flight. Going to the route already shown
\* changes nothing. Otherwise the page shown is unmounted: its state is gone
\* (the variables of a page that is not shown hold their initial values) and
\* its calls stay in flight; the target is mounted with its initial state,
\* and the mount effect of the dashboard calls fetchApplications.
navigate(to, calls) ==
    IF to = route
    THEN /\ pending' = calls
         /\ sent' = <<>>
         /\ UNCHANGED <<route, genVars, dashVars>>
         /\ UNCHANGED <<showAuth, authMode, mode, authLoading, formData, passwordEdited>>
    ELSE /\ route' = to
         /\ MountGenerator
         /\ MountDashboard
         /\ MountLanding
         /\ IF to = "/dashboard"
            THEN /\ pending' = UnmountAll(calls) (+)
                                SetToBag({[Call("GET /applications", [none |-> TRUE])
                                              EXCEPT !.page = to]})
                 /\ sent' = <<Request("GET /applications", [none |-> TRUE])>>
            ELSE /\ pending' = UnmountAll(calls)
                 /\ sent' = <<>>

----------------------------------------------------------------------------
(* Initial state: GeneratorPage just mounted *)

Init ==
    /\ currentStep = 1
    /\ loading = FALSE
    /\ progress = 0
    /\ jobUrl = ""
    /\ jobAnalysis = Null
    /\ resumeFile = Null
    /\ resumeData = Null
    /\ coverLetter = EmptyLetter
    /\ leaked = [inc \in {5, 10} |-> 0]
    /\ applications = <<>>
    /\ dashLoading = TRUE
    /\ deleteId = NullId
    /\ selectedApp = Null
    /\ showAuth = FALSE
    /\ authMode = "login"
    /\ mode = "login"
    /\ authLoading = FALSE
    /\ formData = EmptyForm
    /\ passwordEdited = FALSE
    /\ isAuthenticated = TRUE
    /\ savedAs = <<>>
    /\ called = <<>>
    /\ pending = EmptyBag
    /\ sent = <<>>
    /\ toasts = <<>>
    /\ route = "/generator"

----------------------------------------------------------------------------
(* Simulated-progress timers *)

Min(a, b) == IF a < b THEN a ELSE b

TimerInc(endpoint) ==
    CASE endpoint = "analyze-job" -> 10
      [] endpoint = "analyze-resume" -> 10
      [] endpoint = "generate-cover-letter" -> 5
      [] OTHER -> 0

\* An interval runs from its setInterval until its clearInterval.  The
\* interval of a call in flight is running; `leaked` counts, per increment
\* and up to MaxLeaked, the intervals whose clearInterval was skipped.  The
\* intervals of an unmounted page reach no state any more and are not kept.
TimerRunning(inc) ==
    \/ leaked[inc] > 0
    \/ \E r \in Outstanding : r.mounted /\ TimerInc(r.endpoint) = inc

Leak(inc) == leaked' = [leaked EXCEPT ![inc] = Min(@ + 1, MaxLeaked)]

\* setProgress(p => Math.min(p + inc, 90))
Tick(inc) ==
    /\ Mounted
    /\ TimerRunning(inc)
    /\ progress < MaxProgress
    /\ progress' = Min(progress + inc, 90)
    /\ progress' # progress
    /\ UNCHANGED <<pending, sent>>
    /\ UNCHANGED <<currentStep, loading, jobUrl, jobAnalysis,
                   resumeFile, resumeData, coverLetter, leaked,
                   toasts, savedAs, called, route>>
    /\ UNCHANGED <<dashVars, authVars>>

----------------------------------------------------------------------------
(* Step 1: job URL *)

\* onChange of job-url-input
SetJobUrl(v) ==
    /\ Mounted
    /\ currentStep = 1
    /\ v # jobUrl
    /\ jobUrl' = v
    /\ toasts' = <<>>
    /\ savedAs' = <<>>
    /\ called' = <<>>
    /\ NoRequest
    /\ UNCHANGED <<currentStep, loading, progress, jobAnalysis,
                   resumeFile, resumeData, coverLetter, leaked, route>>
    /\ UNCHANGED <<dashVars, authVars>>

\* analyzeJob without its validation of the URL
analyzeJob_NoValidation ==
    /\ loading' = TRUE
    /\ progress' = 0
    /\ Issue("analyze-job", [url |-> jobUrl], [url |-> jobUrl])
    /\ toasts' = <<>>
    /\ savedAs' = <<>>
    /\ called' = <<>>
    /\ UNCHANGED <<currentStep, jobUrl, jobAnalysis, resumeFile,
                   resumeData, coverLetter, leaked, route>>

\* analyzeJob up to its await
analyzeJob ==
    IF jobUrl = ""
    THEN /\ toasts' = <<Toast("error", "Bitte geben Sie eine URL ein")>>
         /\ savedAs' = <<>>
         /\ called' = <<>>
         /\ NoRequest
         /\ UNCHANGED <<currentStep, loading, progress, jobUrl,
                        jobAnalysis, resumeFile, resumeData, coverLetter,
                        leaked, route>>
    ELSE /\ loading' = TRUE
         /\ progress' = 0
         /\ Issue("analyze-job", [url |-> jobUrl], [url |-> jobUrl])
         /\ toasts' = <<>>
         /\ savedAs' = <<>>
         /\ called' = <<>>
         /\ UNCHANGED <<currentStep, jobUrl, jobAnalysis, resumeFile,
                        resumeData, coverLetter, leaked, route>>

\* disabled attribute of analyze-job-btn
AnalyzeBtnDisabled == loading \/ jobUrl = ""

ClickAnalyzeJob ==
    /\ Mounted
    /\ currentStep = 1
    /\ ~AnalyzeBtnDisabled
    /\ NumPending < MaxPending
    /\ analyzeJob
    /\ UNCHANGED <<dashVars, authVars>>

\* analyzeJob after its await, success
AnalyzeJobOk(r) ==
    /\ r \in OutstandingOf("analyze-job")
    /\ Complete(r)
    /\ toasts' = <<Toast("success", "Stellenausschreibung analysiert!")>>
    /\ savedAs' = <<>>
    /\ called' = <<>>
    /\ IF r.mounted
       THEN /\ jobAnalysis' = JobAnalysisOf(r.captured.url)
            /\ currentStep' = 2
            /\ loading' = FALSE
            /\ progress' = 0
            /\ UNCHANGED <<jobUrl, resumeFile,
                           resumeData, coverLetter, leaked>>
       ELSE UNCHANGED genVars
    /\ UNCHANGED route
    /\ UNCHANGED <<dashVars, authVars>>

\* a catch block that posts the request again
AnalyzeJobFail_Retry(r, err) ==
    /\ r \in OutstandingOf("analyze-job")
    /\ pending' = pending
    /\ sent' = <<Request("analyze-job", r.captured)>>
    /\ toasts' = <<Toast("error", messageOf(err, "Fehler bei der Analyse"))>>
    /\ savedAs' = <<>>
    /\ called' = <<>>
    /\ IF r.mounted
       THEN /\ Leak(TimerInc(r.endpoint))
            /\ loading' = FALSE
            /\ progress' = 0
            /\ UNCHANGED <<currentStep, jobUrl, jobAnalysis,
                           resumeFile, resumeData, coverLetter>>
       ELSE UNCHANGED genVars
    /\ UNCHANGED route
    /\ UNCHANGED <<dashVars, authVars>>

\* analyzeJob after its await, failure: catch and finally
AnalyzeJobFail(r, err) ==
    /\ r \in OutstandingOf("analyze-job")
    /\ Complete(r)
    /\ toasts' = <<Toast("error", messageOf(err, "Fehler bei der Analyse"))>>
    /\ savedAs' = <<>>
    /\ called' = <<>>
    /\ IF r.mounted
       THEN /\ Leak(TimerInc(r.endpoint))
            /\ loading' = FALSE
            /\ progress' = 0
            /\ UNCHANGED <<currentStep, jobUrl, jobAnalysis,
                           resumeFile, resumeData, coverLetter>>
       ELSE UNCHANGED genVars
    /\ UNCHANGED route
    /\ UNCHANGED <<dashVars, authVars>>

----------------------------------------------------------------------------
(* Step 2: resume upload *)

\* handleFileUpload up to its await
handleFileUpload(files) ==
    IF Len(files) = 0
    THEN /\ toasts' = <<>>
         /\ savedAs' = <<>>
         /\ called' = <<>>
         /\ NoRequest
         /\ UNCHANGED <<currentStep, loading, progress, jobUrl,
                        jobAnalysis, resumeFile, resumeData, coverLetter,
                        leaked, route>>
    ELSE IF ~isPdfName(files[1].name)
    THEN /\ toasts' = <<Toast("error", "Nur PDF-Dateien werden akzeptiert")>>
         /\ savedAs' = <<>>
         /\ called' = <<>>
         /\ NoRequest
         /\ UNCHANGED <<currentStep, loading, progress, jobUrl,
                        jobAnalysis, resumeFile, resumeData, coverLetter,
                        leaked, route>>
    ELSE /\ resumeFile' = files[1]
         /\ loading' = TRUE
         /\ progress' = 0
         /\ Issue("analyze-resume", [file |-> files[1]], [file |-> files[1]])
         /\ toasts' = <<>>
         /\ savedAs' = <<>>
         /\ called' = <<>>
         /\ UNCHANGED <<currentStep, jobUrl, jobAnalysis, resumeData,
                        coverLetter, leaked, route>>

\* onChange of resume-upload-input, onDrop of upload-zone
UploadFiles(files) ==
    /\ Mounted
    /\ currentStep = 2
    /\ (Len(files) > 0 /\ isPdfName(files[1].name)) => NumPending < MaxPending
    /\ handleFileUpload(files)
    /\ UNCHANGED <<dashVars, authVars>>

UploadOk(r) ==
    /\ r \in OutstandingOf("analyze-resume")
    /\ Complete(r)
    /\ toasts' = <<Toast("success", "Lebenslauf analysiert!")>>
    /\ savedAs' = <<>>
    /\ called' = <<>>
    /\ IF r.mounted
       THEN /\ resumeData' = ResumeDataOf(r.captured.file)
            /\ loading' = FALSE
            /\ progress' = 0
            /\ UNCHANGED <<currentStep, jobUrl, jobAnalysis,
                           resumeFile, coverLetter, leaked>>
       ELSE UNCHANGED genVars
    /\ UNCHANGED route
    /\ UNCHANGED <<dashVars, authVars>>

\* a catch block that also drops the analysis held so far
UploadFail_ClearsData(r, err) ==
    /\ r \in OutstandingOf("analyze-resume")
    /\ Complete(r)
    /\ toasts' = <<Toast("error", messageOf(err, "Fehler bei der PDF-Analyse"))>>
    /\ savedAs' = <<>>
    /\ called' = <<>>
    /\ IF r.mounted
       THEN /\ Leak(TimerInc(r.endpoint))
            /\ resumeFile' = Null
            /\ resumeData' = Null
            /\ loading' = FALSE
            /\ progress' = 0
            /\ UNCHANGED <<currentStep, jobUrl, jobAnalysis, coverLetter>>
       ELSE UNCHANGED genVars
    /\ UNCHANGED route
    /\ UNCHANGED <<dashVars, authVars>>

UploadFail(r, err) ==
    /\ r \in OutstandingOf("analyze-resume")
    /\ Complete(r)
    /\ toasts' = <<Toast("error", messageOf(err, "Fehler bei der PDF-Analyse"))>>
    /\ savedAs' = <<>>
    /\ called' = <<>>
    /\ IF r.mounted
       THEN /\ Leak(TimerInc(r.endpoint))
            /\ resumeFile' = Null
            /\ loading' = FALSE
            /\ progress' = 0
            /\ UNCHANGED <<currentStep, jobUrl,
                           jobAnalysis, resumeData, coverLetter>>
       ELSE UNCHANGED genVars
    /\ UNCHANGED route
    /\ UNCHANGED <<dashVars, authVars>>

\* back-btn of step 2
ClickBack ==
    /\ Mounted
    /\ currentStep = 2
    /\ currentStep' = 1
    /\ toasts' = <<>>
    /\ savedAs' = <<>>
    /\ called' = <<>>
    /\ NoRequest
    /\ UNCHANGED <<loading, progress, jobUrl, jobAnalysis,
                   resumeFile, resumeData, coverLetter, leaked, route>>
    /\ UNCHANGED <<dashVars, authVars>>

----------------------------------------------------------------------------
(* Step 3: generation *)

\* generateCoverLetter sending the chosen file in place of its analysis
generateCoverLetter_SendsFile ==
    /\ loading' = TRUE
    /\ currentStep' = 3
    /\ progress' = 0
    /\ Issue("generate-cover-letter",
            [job_analysis |-> jobAnalysis, resume_data |-> resumeFile],
            [job_analysis |-> jobAnalysis, resume_data |-> resumeFile])
    /\ toasts' = <<>>
    /\ savedAs' = <<>>
    /\ called' = <<>>
    /\ UNCHANGED <<jobUrl, jobAnalysis, resumeFile, resumeData, coverLetter,
                   leaked, route>>

\* generateCoverLetter up to its await
generateCoverLetter ==
    /\ loading' = TRUE
    /\ currentStep' = 3
    /\ progress' = 0
    /\ Issue("generate-cover-letter",
            [job_analysis |-> jobAnalysis, resume_data |-> resumeData],
            [job_analysis |-> jobAnalysis, resume_data |-> resumeData])
    /\ toasts' = <<>>
    /\ savedAs' = <<>>
    /\ called' = <<>>
    /\ UNCHANGED <<jobUrl, jobAnalysis, resumeFile, resumeData, coverLetter,
                   leaked, route>>

\* generate-btn disabled on the busy flag alone
GenerateBtnDisabled_LoadingOnly == loading

\* disabled attribute of generate-btn
GenerateBtnDisabled == loading \/ resumeData = Null

ClickGenerate ==
    /\ Mounted
    /\ currentStep = 2
    /\ ~GenerateBtnDisabled
    /\ NumPending < MaxPending
    /\ generateCoverLetter
    /\ UNCHANGED <<dashVars, authVars>>

GenerateOk(r) ==
    /\ r \in OutstandingOf("generate-cover-letter")
    /\ Complete(r)
    /\ toasts' = <<Toast("success", "Anschreiben erstellt!")>>
    /\ savedAs' = <<>>
    /\ called' = <<>>
    /\ IF r.mounted
       THEN /\ coverLetter' = CoverLetterOf(r.captured)
            /\ currentStep' = 4
            /\ loading' = FALSE
            /\ progress' = 0
            /\ UNCHANGED <<jobUrl, jobAnalysis,
                           resumeFile, resumeData, leaked>>
       ELSE UNCHANGED genVars
    /\ UNCHANGED route
    /\ UNCHANGED <<dashVars, authVars>>

\* a failure continuation that forgets setCurrentStep(2)
GenerateFail_KeepsStep(r, err) ==
    /\ r \in OutstandingOf("generate-cover-letter")
    /\ Complete(r)
    /\ toasts' = <<Toast("error", messageOf(err, "Fehler bei der Generierung"))>>
    /\ savedAs' = <<>>
    /\ called' = <<>>
    /\ IF r.mounted
       THEN /\ Leak(TimerInc(r.endpoint))
            /\ loading' = FALSE
            /\ progress' = 0
            /\ UNCHANGED <<currentStep, jobUrl, jobAnalysis,
                           resumeFile, resumeData, coverLetter>>
       ELSE UNCHANGED genVars
    /\ UNCHANGED route
    /\ UNCHANGED <<dashVars, authVars>>

GenerateFail(r, err) ==
    /\ r \in OutstandingOf("generate-cover-letter")
    /\ Complete(r)
    /\ toasts' = <<Toast("error", messageOf(err, "Fehler bei der Generierung"))>>
    /\ savedAs' = <<>>
    /\ called' = <<>>
    /\ IF r.mounted
       THEN /\ Leak(TimerInc(r.endpoint))
            /\ currentStep' = 2
            /\ loading' = FALSE
            /\ progress' = 0
            /\ UNCHANGED <<jobUrl, jobAnalysis,
                           resumeFile, resumeData, coverLetter>>
       ELSE UNCHANGED genVars
    /\ UNCHANGED route
    /\ UNCHANGED <<dashVars, authVars>>

----------------------------------------------------------------------------
(* Step 4: preview, save, download *)

\* obj?.field
OptField(obj, field) == IF obj = Null THEN Undefined ELSE obj[field]

ApplicationPayload ==
    [job_url |-> jobUrl,
     job_analysis |-> jobAnalysis,
     resume_data |-> resumeData,
     cover_letter |-> coverLetter,
     company_name |-> OptField(jobAnalysis, "company_name"),
     job_title |-> OptField(jobAnalysis, "job_title")]

\* edit-btn of step 4
ClickEdit ==
    /\ Mounted
    /\ currentStep = 4
    /\ currentStep' = 2
    /\ toasts' = <<>>
    /\ savedAs' = <<>>
    /\ called' = <<>>
    /\ NoRequest
    /\ UNCHANGED <<loading, progress, jobUrl, jobAnalysis,
                   resumeFile, resumeData, coverLetter, leaked, route>>
    /\ UNCHANGED <<dashVars, authVars>>

\* v || dflt, for a string or an absent value
OrElse(v, dflt) == IF v = Undefined \/ v = "" THEN dflt ELSE v

\* a file name built without the fallback
linkDownload_NoFallback(company_name) ==
    "Bewerbung_" \o company_name \o ".pdf"

\* link.download = `Bewerbung_${company_name || 'Dokument'}.pdf`
linkDownload(company_name) ==
    "Bewerbung_" \o OrElse(company_name, "Dokument") \o ".pdf"

\* downloadPdf up to its await
downloadPdf ==
    /\ loading' = TRUE
    /\ Issue("generate-pdf", ApplicationPayload,
            [company_name |-> OptField(jobAnalysis, "company_name")])
    /\ toasts' = <<>>
    /\ savedAs' = <<>>
    /\ called' = <<>>
    /\ UNCHANGED <<currentStep, progress, jobUrl, jobAnalysis, resumeFile,
                   resumeData, coverLetter, leaked, route>>

\* disabled={loading} of download-btn
DownloadBtnDisabled == loading

ClickDownload ==
    /\ Mounted
    /\ currentStep = 4
    /\ ~DownloadBtnDisabled
    /\ NumPending < MaxPending
    /\ downloadPdf
    /\ UNCHANGED <<dashVars, authVars>>

DownloadOk(r) ==
    /\ r \in OutstandingOf("generate-pdf")
    /\ r.page = "/generator"
    /\ Complete(r)
    /\ toasts' = <<Toast("success", "PDF heruntergeladen!")>>
    /\ savedAs' = <<linkDownload(r.captured.company_name)>>
    /\ called' = <<>>
    /\ IF r.mounted
       THEN /\ loading' = FALSE
            /\ UNCHANGED <<currentStep, progress, jobUrl, jobAnalysis,
                           resumeFile, resumeData, coverLetter, leaked>>
       ELSE UNCHANGED genVars
    /\ UNCHANGED route
    /\ UNCHANGED <<dashVars, authVars>>

DownloadFail(r, err) ==
    /\ r \in OutstandingOf("generate-pdf")
    /\ r.page = "/generator"
    /\ Complete(r)
    /\ toasts' = <<Toast("error", "Fehler beim PDF-Download")>>
    /\ savedAs' = <<>>
    /\ called' = <<>>
    /\ IF r.mounted
       THEN /\ loading' = FALSE
            /\ UNCHANGED <<currentStep, progress, jobUrl, jobAnalysis,
                           resumeFile, resumeData, coverLetter, leaked>>
       ELSE UNCHANGED genVars
    /\ UNCHANGED route
    /\ UNCHANGED <<dashVars, authVars>>

\* saveApplication up to its await
saveApplication ==
    /\ loading' = TRUE
    /\ Issue("applications", ApplicationPayload, [none |-> TRUE])
    /\ toasts' = <<>>
    /\ savedAs' = <<>>
    /\ called' = <<>>
    /\ UNCHANGED <<currentStep, progress, jobUrl, jobAnalysis,
                   resumeFile, resumeData, coverLetter, leaked, route>>

\* disabled={loading} of save-btn
SaveBtnDisabled == loading

ClickSave ==
    /\ Mounted
    /\ currentStep = 4
    /\ ~SaveBtnDisabled
    /\ NumPending < MaxPending
    /\ saveApplication
    /\ UNCHANGED <<dashVars, authVars>>

\* saveApplication after its await, success: navigate('/dashboard') comes
\* before the finally block, whose setLoading(false) goes to a page that is
\* unmounted with the navigation
SaveOk(r) ==
    /\ r \in OutstandingOf("applications")
    /\ toasts' = <<Toast("success", "Bewerbung gespeichert!")>>
    /\ savedAs' = <<>>
    /\ called' = <<Navigation("/dashboard")>>
    /\ navigate("/dashboard", pending (-) SetToBag({r}))
    /\ UNCHANGED isAuthenticated

\* a failure continuation that sends the flow back to step 2
SaveFail_BackToStep2(r, err) ==
    /\ r \in OutstandingOf("applications")
    /\ Complete(r)
    /\ toasts' = <<Toast("error", "Fehler beim Speichern")>>
    /\ savedAs' = <<>>
    /\ called' = <<>>
    /\ IF r.mounted
       THEN /\ currentStep' = 2
            /\ loading' = FALSE
            /\ UNCHANGED <<progress, jobUrl, jobAnalysis,
                           resumeFile, resumeData, coverLetter, leaked>>
       ELSE UNCHANGED genVars
    /\ UNCHANGED route
    /\ UNCHANGED <<dashVars, authVars>>

\* a saveApplication whose navigate call follows the try statement
SaveFail_Navigates(r, err) ==
    /\ r \in OutstandingOf("applications")
    /\ toasts' = <<Toast("error", "Fehler beim Speichern")>>
    /\ savedAs' = <<>>
    /\ called' = <<Navigation("/dashboard")>>
    /\ navigate("/dashboard", pending (-) SetToBag({r}))
    /\ UNCHANGED isAuthenticated

SaveFail(r, err) ==
    /\ r \in OutstandingOf("applications")
    /\ Complete(r)
    /\ toasts' = <<Toast("error", "Fehler beim Speichern")>>
    /\ savedAs' = <<>>
    /\ called' = <<>>
    /\ IF r.mounted
       THEN /\ loading' = FALSE
            /\ UNCHANGED <<currentStep, progress, jobUrl, jobAnalysis,
                           resumeFile, resumeData, coverLetter, leaked>>
       ELSE UNCHANGED genVars
    /\ UNCHANGED route
    /\ UNCHANGED <<dashVars, authVars>>

----------------------------------------------------------------------------
(* The generator flow *)

\* logo-btn of the navigation bar
ClickLogo ==
    /\ Mounted
    /\ navigate("/", pending)
    /\ toasts' = <<>>
    /\ savedAs' = <<>>
    /\ called' = <<Navigation("/")>>
    /\ UNCHANGED isAuthenticated

\* logout-btn of the navigation bar: logout of the auth context signs the
\* user out
ClickLogout ==
    /\ Mounted
    /\ isAuthenticated' = FALSE
    /\ NoRequest
    /\ toasts' = <<>>
    /\ savedAs' = <<>>
    /\ called' = <<>>
    /\ UNCHANGED <<showAuth, authMode, mode, authLoading, formData, passwordEdited, route>>
    /\ UNCHANGED <<genVars, dashVars>>

\* dashboard-btn of the navigation bar
ClickDashboard ==
    /\ Mounted
    /\ NumPending < MaxPending
    /\ navigate("/dashboard", pending)
    /\ toasts' = <<>>
    /\ savedAs' = <<>>
    /\ called' = <<Navigation("/dashboard")>>
    /\ UNCHANGED isAuthenticated

Next ==
    \/ \E v \in UrlInputs : SetJobUrl(v)
    \/ ClickAnalyzeJob
    \/ \E r \in Outstanding : AnalyzeJobOk(r)
    \/ \E r \in Outstanding, err \in Failures : AnalyzeJobFail(r, err)
    \/ \E files \in FileLists : UploadFiles(files)
    \/ \E r \in Outstanding : UploadOk(r)
    \/ \E r \in Outstanding, err \in Failures : UploadFail(r, err)
    \/ ClickBack
    \/ ClickGenerate
    \/ \E r \in Outstanding : GenerateOk(r)
    \/ \E r \in Outstanding, err \in Failures : GenerateFail(r, err)
    \/ ClickEdit
    \/ ClickDownload
    \/ \E r \in Outstanding : DownloadOk(r)
    \/ \E r \in Outstanding, err \in Failures : DownloadFail(r, err)
    \/ ClickSave
    \/ \E r \in Outstanding : SaveOk(r)
    \/ \E r \in Outstanding, err \in Failures : SaveFail(r, err)
    \/ \E inc \in {5, 10} : Tick(inc)
    \/ ClickLogo
    \/ ClickDashboard
    \/ ClickLogout

Spec == Init /\ [][Next]_vars

----------------------------------------------------------------------------
(* The responses of the generator's calls *)

\* the response to some call of an endpoint arrives
AnalyzeJobResponds ==
    \E r \in Outstanding :
        AnalyzeJobOk(r) \/ \E err \in Failures : AnalyzeJobFail(r, err)

UploadResponds ==
    \E r \in Outstanding :
        UploadOk(r) \/ \E err \in Failures : UploadFail(r, err)

GenerateResponds ==
    \E r \in Outstanding :
        GenerateOk(r) \/ \E err \in Failures : GenerateFail(r, err)

DownloadResponds ==
    \E r \in Outstanding :
        DownloadOk(r) \/ \E err \in Failures : DownloadFail(r, err)

SaveResponds ==
    \E r \in Outstanding :
        SaveOk(r) \/ \E err \in Failures : SaveFail(r, err)

----------------------------------------------------------------------------
(* The click handler of analyze-job-btn run although the button is         *)
(* disabled for an empty URL (the handler's own validation branch).        *)

InvokeAnalyzeJobEmpty ==
    /\ Mounted
    /\ currentStep = 1
    /\ jobUrl = ""
    /\ analyzeJob
    /\ UNCHANGED <<dashVars, authVars>>

HandlerNext == Next \/ InvokeAnalyzeJobEmpty

HandlerSpec == Init /\ [][HandlerNext]_vars

----------------------------------------------------------------------------
(* DashboardPage *)

DashMounted == route = "/dashboard"

\* State after mounting: the effect has called fetchApplications.
DashInit ==
    /\ currentStep = 1
    /\ loading = FALSE
    /\ progress = 0
    /\ jobUrl = ""
    /\ jobAnalysis = Null
    /\ resumeFile = Null
    /\ resumeData = Null
    /\ coverLetter = EmptyLetter
    /\ leaked = [inc \in {5, 10} |-> 0]
    /\ applications = <<>>
    /\ dashLoading = TRUE
    /\ deleteId = NullId
    /\ selectedApp = Null
    /\ showAuth = FALSE
    /\ authMode = "login"
    /\ mode = "login"
    /\ authLoading = FALSE
    /\ formData = EmptyForm
    /\ passwordEdited = FALSE
    /\ isAuthenticated = TRUE
    /\ savedAs = <<>>
    /\ called = <<>>
    /\ route = "/dashboard"
    /\ pending = SetToBag({Call("GET /applications", [none |-> TRUE])})
    /\ sent = <<Request("GET /applications", [none |-> TRUE])>>
    /\ toasts = <<>>

\* a fetchApplications that polls: the list is shown and the GET is
\* issued again
FetchOk_Polls(r, list) ==
    /\ r \in OutstandingOf("GET /applications")
    /\ UNCHANGED pending
    /\ sent' = <<Request("GET /applications", [none |-> TRUE])>>
    /\ toasts' = <<>>
    /\ savedAs' = <<>>
    /\ called' = <<>>
    /\ IF r.mounted
       THEN /\ applications' = list
            /\ dashLoading' = FALSE
            /\ UNCHANGED <<deleteId, selectedApp>>
       ELSE UNCHANGED dashVars
    /\ UNCHANGED route
    /\ UNCHANGED <<genVars, authVars>>

\* fetchApplications after its await, success
FetchOk(r, list) ==
    /\ r \in OutstandingOf("GET /applications")
    /\ Complete(r)
    /\ toasts' = <<>>
    /\ savedAs' = <<>>
    /\ called' = <<>>
    /\ IF r.mounted
       THEN /\ applications' = list
            /\ dashLoading' = FALSE
            /\ UNCHANGED <<deleteId, selectedApp>>
       ELSE UNCHANGED dashVars
    /\ UNCHANGED route
    /\ UNCHANGED <<genVars, authVars>>

\* a fetchApplications without its finally block
FetchFail_KeepsLoading(r, err) ==
    /\ r \in OutstandingOf("GET /applications")
    /\ Complete(r)
    /\ toasts' = <<Toast("error", "Fehler beim Laden der Bewerbungen")>>
    /\ savedAs' = <<>>
    /\ called' = <<>>
    /\ UNCHANGED dashVars
    /\ UNCHANGED route
    /\ UNCHANGED <<genVars, authVars>>

FetchFail(r, err) ==
    /\ r \in OutstandingOf("GET /applications")
    /\ Complete(r)
    /\ toasts' = <<Toast("error", "Fehler beim Laden der Bewerbungen")>>
    /\ savedAs' = <<>>
    /\ called' = <<>>
    /\ IF r.mounted
       THEN /\ dashLoading' = FALSE
            /\ UNCHANGED <<applications, deleteId, selectedApp>>
       ELSE UNCHANGED dashVars
    /\ UNCHANGED route
    /\ UNCHANGED <<genVars, authVars>>

\* applications.filter(app => app.id !== id)
RECURSIVE filterOutId(_, _)
filterOutId(list, id) ==
    IF list = <<>> THEN <<>>
    ELSE IF Head(list).id # id
         THEN <<Head(list)>> \o filterOutId(Tail(list), id)
         ELSE filterOutId(Tail(list), id)

\* The cards are rendered when loading is false and the list is not empty.
Displayed == IF dashLoading THEN <<>> ELSE applications

\* open={!!deleteId}: the confirmation dialog is shown.  It is modal, so
\* everything of the page outside it is out of reach while it is open.
DialogOpen == deleteId # NullId

\* delete-btn of a card; the preview is a plain overlay, under which the
\* cards stay rendered and enabled
OpenDelete(i) ==
    /\ DashMounted
    /\ ~DialogOpen
    /\ i \in 1..Len(Displayed)
    /\ deleteId' = Displayed[i].id
    /\ NoRequest
    /\ toasts' = <<>>
    /\ savedAs' = <<>>
    /\ called' = <<>>
    /\ UNCHANGED <<applications, dashLoading, selectedApp, route>>
    /\ UNCHANGED <<genVars, authVars>>

\* onOpenChange of the confirmation dialog
CancelDelete ==
    /\ DashMounted
    /\ DialogOpen
    /\ deleteId' = NullId
    /\ NoRequest
    /\ toasts' = <<>>
    /\ savedAs' = <<>>
    /\ called' = <<>>
    /\ UNCHANGED <<applications, dashLoading, selectedApp, route>>
    /\ UNCHANGED <<genVars, authVars>>

\* deleteApplication up to its await
deleteApplication ==
    IF deleteId = NullId
    THEN /\ NoRequest
         /\ toasts' = <<>>
         /\ savedAs' = <<>>
         /\ called' = <<>>
         /\ UNCHANGED <<applications, dashLoading, selectedApp, route>>
    ELSE /\ Issue("DELETE /applications/{id}", [id |-> deleteId],
                  [deleteId |-> deleteId, applications |-> applications])
         /\ toasts' = <<>>
         /\ savedAs' = <<>>
         /\ called' = <<>>
         /\ UNCHANGED <<applications, dashLoading, selectedApp, route>>

\* confirm-delete-btn, shown while the dialog is open: the click runs
\* deleteApplication up to its await, and the action button then closes the
\* dialog through onOpenChange
ConfirmDelete ==
    /\ DashMounted
    /\ DialogOpen
    /\ NumPending < MaxPending
    /\ deleteApplication
    /\ deleteId' = NullId
    /\ UNCHANGED <<genVars, authVars>>

\* deleteApplication after its await, success
DeleteOk(r) ==
    /\ r \in OutstandingOf("DELETE /applications/{id}")
    /\ Complete(r)
    /\ toasts' = <<Toast("success", "Bewerbung gelöscht")>>
    /\ savedAs' = <<>>
    /\ called' = <<>>
    /\ IF r.mounted
       THEN /\ applications' = filterOutId(r.captured.applications, r.captured.deleteId)
            /\ deleteId' = NullId
            /\ UNCHANGED <<dashLoading, selectedApp>>
       ELSE UNCHANGED dashVars
    /\ UNCHANGED route
    /\ UNCHANGED <<genVars, authVars>>

\* a failure path that removes the card all the same and leaves the dialog
DeleteFail_Optimistic(r, err) ==
    /\ r \in OutstandingOf("DELETE /applications/{id}")
    /\ Complete(r)
    /\ toasts' = <<Toast("error", "Fehler beim Löschen")>>
    /\ savedAs' = <<>>
    /\ called' = <<>>
    /\ IF r.mounted
       THEN /\ applications' = filterOutId(applications, r.captured.deleteId)
            /\ UNCHANGED <<dashLoading, deleteId, selectedApp>>
       ELSE UNCHANGED dashVars
    /\ UNCHANGED route
    /\ UNCHANGED <<genVars, authVars>>

DeleteFail(r, err) ==
    /\ r \in OutstandingOf("DELETE /applications/{id}")
    /\ Complete(r)
    /\ toasts' = <<Toast("error", "Fehler beim Löschen")>>
    /\ savedAs' = <<>>
    /\ called' = <<>>
    /\ IF r.mounted
       THEN /\ deleteId' = NullId
            /\ UNCHANGED <<applications, dashLoading, selectedApp>>
       ELSE UNCHANGED dashVars
    /\ UNCHANGED route
    /\ UNCHANGED <<genVars, authVars>>

\* view-btn of a card
OpenView(i) ==
    /\ DashMounted
    /\ ~DialogOpen
    /\ i \in 1..Len(Displayed)
    /\ selectedApp' = Displayed[i]
    /\ NoRequest
    /\ toasts' = <<>>
    /\ savedAs' = <<>>
    /\ called' = <<>>
    /\ UNCHANGED <<applications, dashLoading, deleteId, route>>
    /\ UNCHANGED <<genVars, authVars>>

\* close-preview-btn, close-modal-btn and the backdrop of the preview
CloseView ==
    /\ DashMounted
    /\ ~DialogOpen
    /\ selectedApp # Null
    /\ selectedApp' = Null
    /\ NoRequest
    /\ toasts' = <<>>
    /\ savedAs' = <<>>
    /\ called' = <<>>
    /\ UNCHANGED <<applications, dashLoading, deleteId, route>>
    /\ UNCHANGED <<genVars, authVars>>

\* the object literal {}
EmptyObject == [kind |-> "object"]

\* the request body downloadPdf(app) of the dashboard builds
DashPdfPayload(app) ==
    [job_url |-> app.job_url,
     job_analysis |-> EmptyObject,
     resume_data |-> EmptyObject,
     cover_letter |-> app.cover_letter,
     company_name |-> app.company_name,
     job_title |-> app.job_title]

\* downloadPdf(app) of the dashboard up to its await
dashDownloadPdf(app) ==
    /\ Issue("generate-pdf", DashPdfPayload(app),
            [company_name |-> app.company_name])
    /\ toasts' = <<>>
    /\ savedAs' = <<>>
    /\ called' = <<>>
    /\ UNCHANGED <<applications, dashLoading, deleteId, selectedApp, route>>

\* download-btn of a card
ClickCardDownload(i) ==
    /\ DashMounted
    /\ ~DialogOpen
    /\ i \in 1..Len(Displayed)
    /\ NumPending < MaxPending
    /\ dashDownloadPdf(Displayed[i])
    /\ UNCHANGED <<genVars, authVars>>

\* download-modal-btn of the preview
ClickModalDownload ==
    /\ DashMounted
    /\ ~DialogOpen
    /\ selectedApp # Null
    /\ NumPending < MaxPending
    /\ dashDownloadPdf(selectedApp)
    /\ UNCHANGED <<genVars, authVars>>

\* downloadPdf(app) after its await, success
DashDownloadOk(r) ==
    /\ r \in OutstandingOf("generate-pdf")
    /\ r.page = "/dashboard"
    /\ Complete(r)
    /\ toasts' = <<Toast("success", "PDF heruntergeladen!")>>
    /\ savedAs' = <<linkDownload(r.captured.company_name)>>
    /\ called' = <<>>
    /\ UNCHANGED dashVars
    /\ UNCHANGED route
    /\ UNCHANGED <<genVars, authVars>>

DashDownloadFail(r, err) ==
    /\ r \in OutstandingOf("generate-pdf")
    /\ r.page = "/dashboard"
    /\ Complete(r)
    /\ toasts' = <<Toast("error", "Fehler beim PDF-Download")>>
    /\ savedAs' = <<>>
    /\ called' = <<>>
    /\ UNCHANGED dashVars
    /\ UNCHANGED route
    /\ UNCHANGED <<genVars, authVars>>

\* logo-btn of the dashboard's navigation bar
DashClickLogo ==
    /\ DashMounted
    /\ ~DialogOpen
    /\ navigate("/", pending)
    /\ toasts' = <<>>
    /\ savedAs' = <<>>
    /\ called' = <<Navigation("/")>>
    /\ UNCHANGED isAuthenticated

\* new-application-btn of the header
ClickNewApplication ==
    /\ DashMounted
    /\ ~DialogOpen
    /\ navigate("/generator", pending)
    /\ toasts' = <<>>
    /\ savedAs' = <<>>
    /\ called' = <<Navigation("/generator")>>
    /\ UNCHANGED isAuthenticated

\* logout-btn of the dashboard's navigation bar: logout of the auth
\* context signs the user out
DashClickLogout ==
    /\ DashMounted
    /\ ~DialogOpen
    /\ isAuthenticated' = FALSE
    /\ NoRequest
    /\ toasts' = <<>>
    /\ savedAs' = <<>>
    /\ called' = <<>>
    /\ UNCHANGED <<showAuth, authMode, mode, authLoading, formData, passwordEdited, route>>
    /\ UNCHANGED <<genVars, dashVars>>

\* create-first-btn, rendered when loading is over and the list is empty
ClickCreateFirst ==
    /\ DashMounted
    /\ ~DialogOpen
    /\ ~dashLoading
    /\ applications = <<>>
    /\ navigate("/generator", pending)
    /\ toasts' = <<>>
    /\ savedAs' = <<>>
    /\ called' = <<Navigation("/generator")>>
    /\ UNCHANGED isAuthenticated

DashNext ==
    \/ \E r \in Outstanding, list \in ServerLists : FetchOk(r, list)
    \/ \E r \in Outstanding, err \in Failures : FetchFail(r, err)
    \/ \E i \in 1..MaxApps : OpenDelete(i)
    \/ CancelDelete
    \/ ConfirmDelete
    \/ \E r \in Outstanding : DeleteOk(r)
    \/ \E r \in Outstanding, err \in Failures : DeleteFail(r, err)
    \/ \E i \in 1..MaxApps : OpenView(i)
    \/ CloseView
    \/ \E i \in 1..MaxApps : ClickCardDownload(i)
    \/ ClickModalDownload
    \/ \E r \in Outstanding : DashDownloadOk(r)
    \/ \E r \in Outstanding, err \in Failures : DashDownloadFail(r, err)
    \/ DashClickLogo
    \/ ClickNewApplication
    \/ ClickCreateFirst
    \/ DashClickLogout

DashSpec == DashInit /\ [][DashNext]_vars

----------------------------------------------------------------------------
(* LandingPage and its AuthModal *)

LandingMounted == route = "/"

\* State after mounting the landing page, signed in or not.
LandingInit ==
    /\ currentStep = 1
    /\ loading = FALSE
    /\ progress = 0
    /\ jobUrl = ""
    /\ jobAnalysis = Null
    /\ resumeFile = Null
    /\ resumeData = Null
    /\ coverLetter = EmptyLetter
    /\ leaked = [inc \in {5, 10} |-> 0]
    /\ applications = <<>>
    /\ dashLoading = TRUE
    /\ deleteId = NullId
    /\ selectedApp = Null
    /\ showAuth = FALSE
    /\ authMode = "login"
    /\ mode = "login"
    /\ authLoading = FALSE
    /\ formData = EmptyForm
    /\ passwordEdited = FALSE
    /\ isAuthenticated \in BOOLEAN
    /\ savedAs = <<>>
    /\ called = <<>>
    /\ pending = EmptyBag
    /\ sent = <<>>
    /\ toasts = <<>>
    /\ route = "/"

\* login-nav-btn and register-nav-btn, rendered for a visitor; the page is
\* out of reach while the modal is open
OpenAuth(m) ==
    /\ LandingMounted
    /\ ~isAuthenticated
    /\ ~showAuth
    /\ authMode' = m
    /\ showAuth' = TRUE
    /\ NoRequest
    /\ toasts' = <<>>
    /\ savedAs' = <<>>
    /\ called' = <<>>
    /\ UNCHANGED <<mode, authLoading, formData, passwordEdited, isAuthenticated, route>>
    /\ UNCHANGED <<genVars, dashVars>>

\* hero-cta-btn and cta-btn
handleGetStarted ==
    /\ LandingMounted
    /\ ~showAuth
    /\ IF isAuthenticated
       THEN /\ navigate("/generator", pending)
            /\ called' = <<Navigation("/generator")>>
       ELSE /\ authMode' = "register"
            /\ showAuth' = TRUE
            /\ called' = <<>>
            /\ NoRequest
            /\ UNCHANGED <<mode, authLoading, formData, passwordEdited, route>>
            /\ UNCHANGED <<genVars, dashVars>>
    /\ toasts' = <<>>
    /\ savedAs' = <<>>
    /\ UNCHANGED isAuthenticated

\* onClose through onOpenChange of the dialog; the closed dialog unmounts
\* its content, and the inputs are rendered anew when it is opened again
CloseAuth ==
    /\ LandingMounted
    /\ showAuth
    /\ showAuth' = FALSE
    /\ NoRequest
    /\ toasts' = <<>>
    /\ savedAs' = <<>>
    /\ called' = <<OnClose>>
    /\ passwordEdited' = FALSE
    /\ UNCHANGED <<authMode, mode, authLoading, formData, isAuthenticated, route>>
    /\ UNCHANGED <<genVars, dashVars>>

\* onChange of name-input, email-input or password-input:
\* setFormData({ ...formData, [field]: e.target.value }); name-input is
\* rendered in mode 'register' only
SetFormData(field, v) ==
    /\ LandingMounted
    /\ showAuth
    /\ field = "name" => mode = "register"
    /\ v # formData[field]
    /\ formData' = [formData EXCEPT ![field] = v]
    /\ passwordEdited' = IF field = "password" THEN TRUE ELSE passwordEdited
    /\ NoRequest
    /\ toasts' = <<>>
    /\ savedAs' = <<>>
    /\ called' = <<>>
    /\ UNCHANGED <<showAuth, authMode, mode, authLoading, isAuthenticated, route>>
    /\ UNCHANGED <<genVars, dashVars>>

\* toggle-auth-mode; a password cleared here is a value set by the
\* component, not by the user
toggleMode ==
    /\ LandingMounted
    /\ showAuth
    /\ mode' = IF mode = "login" THEN "register" ELSE "login"
    /\ formData' = EmptyForm
    /\ passwordEdited' = IF formData.password = <<>> THEN passwordEdited ELSE FALSE
    /\ NoRequest
    /\ toasts' = <<>>
    /\ savedAs' = <<>>
    /\ called' = <<>>
    /\ UNCHANGED <<showAuth, authMode, authLoading, isAuthenticated, route>>
    /\ UNCHANGED <<genVars, dashVars>>

\* the arguments handleSubmit hands to login or register
CredentialsOf(m, form) ==
    IF m = "login"
    THEN [email |-> form.email, password |-> form.password]
    ELSE [email |-> form.email, password |-> form.password, name |-> form.name]

\* handleSubmit up to its await
handleSubmit ==
    /\ authLoading' = TRUE
    /\ Issue(mode, CredentialsOf(mode, formData), [mode |-> mode])
    /\ toasts' = <<>>
    /\ savedAs' = <<>>
    /\ called' = <<>>
    /\ UNCHANGED <<showAuth, authMode, mode, formData, passwordEdited, isAuthenticated, route>>

\* Constraint validation of the browser, which holds the submit event back
\* while an input of the form is invalid.

\* required: the value is empty
valueMissing(v) == v = <<>>

\* minLength={n}: the value is not empty and shorter than n code units
tooShort(v, n) == v # <<>> /\ Len(v) < n

IsAlnum(c) == Between(c, 48, 57) \/ Between(c, 65, 90) \/ Between(c, 97, 122)

\* the characters of the part before the @: letters, digits and
\* . ! # $ % & ' * + / = ? ^ _ ` { | } ~ -
IsLocalChar(c) ==
    IsAlnum(c) \/ c \in {46, 33, 35, 36, 37, 38, 39, 42, 43, 47, 61, 63,
                         94, 95, 96, 123, 124, 125, 126, 45}

\* the part after the @: labels of letters, digits and hyphens, separated
\* by dots, each of 1 to 63 characters, none beginning or ending in a hyphen
IsDomain(d) ==
    /\ d # <<>>
    /\ \A i \in 1..Len(d) : IsAlnum(d[i]) \/ d[i] \in {45, 46}
    /\ IsAlnum(d[1])
    /\ IsAlnum(d[Len(d)])
    /\ \A i \in 2..(Len(d) - 1) :
          d[i] = 46 => IsAlnum(d[i - 1]) /\ IsAlnum(d[i + 1])
    /\ \A i \in 1..(Len(d) - 63) : \E j \in i..(i + 63) : d[j] = 46

\* a valid e-mail address, as type="email" takes it
IsEmailAddress(v) ==
    \E k \in 2..Len(v) :
        /\ v[k] = 64
        /\ \A i \in 1..(k - 1) : IsLocalChar(v[i])
        /\ IsDomain(SubSeq(v, k + 1, Len(v)))

\* type="email": the value is not empty and not a valid e-mail address
typeMismatch(v) == v # <<>> /\ ~IsEmailAddress(v)

\* the attributes of the inputs rendered: name-input (in mode 'register')
\* required, email-input required and type="email", password-input
\* required and minLength={6}; minLength holds back only a value that the
\* user has typed into the input rendered, not one the component has set
FormValid ==
    /\ mode = "register" => ~valueMissing(formData.name)
    /\ ~valueMissing(formData.email)
    /\ ~typeMismatch(formData.email)
    /\ ~valueMissing(formData.password)
    /\ ~(passwordEdited /\ tooShort(formData.password, 6))

\* submit of the form through auth-submit-btn; with an invalid input the
\* browser reports the input and handleSubmit is not called
SubmitAuth ==
    /\ LandingMounted
    /\ showAuth
    /\ ~authLoading
    /\ FormValid
    /\ NumPending < MaxPending
    /\ handleSubmit
    /\ UNCHANGED <<genVars, dashVars>>

AuthEndpoints == {"login", "register"}

\* handleSubmit after its await, success: login or register has signed the
\* user in; onClose() and navigate('/generator') leave the landing page
AuthOk(r) ==
    /\ r \in Outstanding
    /\ r.endpoint \in AuthEndpoints
    /\ toasts' = <<Toast("success",
                        IF r.captured.mode = "login"
                        THEN "Erfolgreich angemeldet!"
                        ELSE "Konto erfolgreich erstellt!")>>
    /\ savedAs' = <<>>
    /\ called' = <<OnClose, Navigation("/generator")>>
    /\ isAuthenticated' = TRUE
    /\ navigate("/generator", pending (-) SetToBag({r}))

\* a handleSubmit whose onClose call follows the try statement
AuthFail_ClosesModal(r, err) ==
    /\ r \in Outstanding
    /\ r.endpoint \in AuthEndpoints
    /\ Complete(r)
    /\ toasts' = <<Toast("error", messageOf(err, "Ein Fehler ist aufgetreten"))>>
    /\ savedAs' = <<>>
    /\ called' = <<OnClose>>
    /\ IF r.mounted
       THEN /\ authLoading' = FALSE
            /\ showAuth' = FALSE
            /\ passwordEdited' = FALSE
            /\ UNCHANGED <<authMode, mode, formData>>
       ELSE UNCHANGED <<showAuth, authMode, mode, authLoading, formData, passwordEdited>>
    /\ UNCHANGED <<isAuthenticated, route>>
    /\ UNCHANGED <<genVars, dashVars>>

AuthFail(r, err) ==
    /\ r \in Outstanding
    /\ r.endpoint \in AuthEndpoints
    /\ Complete(r)
    /\ toasts' = <<Toast("error", messageOf(err, "Ein Fehler ist aufgetreten"))>>
    /\ savedAs' = <<>>
    /\ called' = <<>>
    /\ IF r.mounted
       THEN /\ authLoading' = FALSE
            /\ UNCHANGED <<showAuth, authMode, mode, formData, passwordEdited>>
       ELSE UNCHANGED <<showAuth, authMode, mode, authLoading, formData, passwordEdited>>
    /\ UNCHANGED <<isAuthenticated, route>>
    /\ UNCHANGED <<genVars, dashVars>>

\* dashboard-nav-btn, rendered for a signed-in user
ClickDashboardNav ==
    /\ LandingMounted
    /\ ~showAuth
    /\ isAuthenticated
    /\ NumPending < MaxPending
    /\ navigate("/dashboard", pending)
    /\ toasts' = <<>>
    /\ savedAs' = <<>>
    /\ called' = <<Navigation("/dashboard")>>
    /\ UNCHANGED isAuthenticated

\* start-nav-btn, rendered for a signed-in user
ClickStartNav ==
    /\ LandingMounted
    /\ ~showAuth
    /\ isAuthenticated
    /\ navigate("/generator", pending)
    /\ toasts' = <<>>
    /\ savedAs' = <<>>
    /\ called' = <<Navigation("/generator")>>
    /\ UNCHANGED isAuthenticated

LandingNext ==
    \/ \E m \in AuthEndpoints : OpenAuth(m)
    \/ handleGetStarted
    \/ CloseAuth
    \/ \E field \in FormFields : \E v \in FieldInputs[field] : SetFormData(field, v)
    \/ toggleMode
    \/ SubmitAuth
    \/ \E r \in Outstanding : AuthOk(r)
    \/ \E r \in Outstanding, err \in Failures : AuthFail(r, err)
    \/ ClickDashboardNav
    \/ ClickStartNav

LandingSpec == LandingInit /\ [][LandingNext]_vars

----------------------------------------------------------------------------
(* The application, started on any of its three pages.  The pages follow  *)
(* one another through the router, and a call of a page that was left is  *)
(* settled on the page shown.                                             *)

AppInit == Init \/ DashInit \/ LandingInit

AppNext ==
    \/ \E v \in UrlInputs : SetJobUrl(v)
    \/ ClickAnalyzeJob
    \/ \E r \in Outstanding : AnalyzeJobOk(r)
    \/ \E r \in Outstanding, err \in Failures : AnalyzeJobFail(r, err)
    \/ \E files \in FileLists : UploadFiles(files)
    \/ \E r \in Outstanding : UploadOk(r)
    \/ \E r \in Outstanding, err \in Failures : UploadFail(r, err)
    \/ ClickBack
    \/ ClickGenerate
    \/ \E r \in Outstanding : GenerateOk(r)
    \/ \E r \in Outstanding, err \in Failures : GenerateFail(r, err)
    \/ ClickEdit
    \/ ClickDownload
    \/ \E r \in Outstanding : DownloadOk(r)
    \/ \E r \in Outstanding, err \in Failures : DownloadFail(r, err)
    \/ ClickSave
    \/ \E r \in Outstanding : SaveOk(r)
    \/ \E r \in Outstanding, err \in Failures : SaveFail(r, err)
    \/ \E inc \in {5, 10} : Tick(inc)
    \/ ClickLogo
    \/ ClickDashboard
    \/ ClickLogout
    \/ \E r \in Outstanding, list \in ServerLists : FetchOk(r, list)
    \/ \E r \in Outstanding, err \in Failures : FetchFail(r, err)
    \/ \E i \in 1..MaxApps : OpenDelete(i)
    \/ CancelDelete
    \/ ConfirmDelete
    \/ \E r \in Outstanding : DeleteOk(r)
    \/ \E r \in Outstanding, err \in Failures : DeleteFail(r, err)
    \/ \E i \in 1..MaxApps : OpenView(i)
    \/ CloseView
    \/ \E i \in 1..MaxApps : ClickCardDownload(i)
    \/ ClickModalDownload
    \/ \E r \in Outstanding : DashDownloadOk(r)
    \/ \E r \in Outstanding, err \in Failures : DashDownloadFail(r, err)
    \/ DashClickLogo
    \/ ClickNewApplication
    \/ ClickCreateFirst
    \/ DashClickLogout
    \/ \E m \in AuthEndpoints : OpenAuth(m)
    \/ handleGetStarted
    \/ CloseAuth
    \/ \E field \in FormFields : \E v \in FieldInputs[field] : SetFormData(field, v)
    \/ toggleMode
    \/ SubmitAuth
    \/ \E r \in Outstanding : AuthOk(r)
    \/ \E r \in Outstanding, err \in Failures : AuthFail(r, err)
    \/ ClickDashboardNav
    \/ ClickStartNav

AppSpec == AppInit /\ [][AppNext]_vars

----------------------------------------------------------------------------
(* The generator when every request eventually receives a response *)

LiveSpec ==
    /\ Init
    /\ [][Next]_vars
    /\ WF_vars(AnalyzeJobResponds)
    /\ WF_vars(UploadResponds)
    /\ WF_vars(GenerateResponds)
    /\ WF_vars(DownloadResponds)
    /\ WF_vars(SaveResponds)

----------------------------------------------------------------------------
(* Properties of the generator flow *)

StepEdges == {<<1, 2>>, <<2, 3>>, <<3, 4>>, <<3, 2>>, <<2, 1>>, <<4, 2>>}

\* the step leaves the page that is shown in place
PageStays == route' = route

\* C1: while the generator is shown, currentStep changes only along the
\* edges 1->2, 2->3, 3->4, 3->2, 2->1 and 4->2, whatever the order of user
\* actions and responses.
C1_OnlyStepEdges ==
    [][(PageStays /\ currentStep' # currentStep) =>
          <<currentStep, currentStep'>> \in StepEdges]_vars

Endpoints == {"analyze-job", "analyze-resume", "generate-cover-letter",
              "applications", "generate-pdf"}

\* C2: no two calls of the same action (analyze job, upload resume,
\* generate, save, download) are ever outstanding at once.
C2_OneCallPerAction == \A e \in Endpoints : CountOf(e) <= 1

\* C3: a successful job-analysis response that arrives at the generator
\* moves the flow from step 1 to step 2, stores the returned analysis and
\* leaves jobUrl, resumeFile, resumeData and coverLetter unchanged.
C3_AnalysisAdvancesOneStep ==
    [][\A r \in Outstanding :
         (r.mounted /\ AnalyzeJobOk(r)) =>
            /\ currentStep = 1
            /\ currentStep' = currentStep + 1
            /\ jobAnalysis' = JobAnalysisOf(r.captured.url)
            /\ UNCHANGED <<jobUrl, resumeFile, resumeData, coverLetter>>]_vars

ValidationToast == Toast("error", "Bitte geben Sie eine URL ein")

\* C4: analyzeJob invoked with an empty jobUrl issues no network call,
\* shows the validation message and leaves currentStep, loading, progress
\* and jobAnalysis unchanged.
C4_EmptyUrlNoCall ==
    [][InvokeAnalyzeJobEmpty =>
          /\ sent' = <<>>
          /\ pending' = pending
          /\ toasts' = <<ValidationToast>>
          /\ UNCHANGED <<currentStep, loading, progress, jobAnalysis>>]_vars

\* the validation message is on screen while a call is in flight and
\* an analysis is already held
C4_Witness ==
    /\ toasts = <<ValidationToast>>
    /\ jobUrl = ""
    /\ sent = <<>>
    /\ loading
    /\ NumPending > 0
    /\ jobAnalysis # Null

\* The names of Files that end in ".pdf" when lower-cased, listed by hand.
PdfNames == {NameCvPDF}

RejectionToast == Toast("error", "Nur PDF-Dateien werden akzeptiert")

\* C5: handleFileUpload rejects a file exactly when its lower-cased name
\* does not end in ".pdf"; a rejected file causes no network call, leaves
\* resumeFile, resumeData, loading and currentStep unchanged and shows an
\* error message; an accepted file is sent to /analyze-resume.
C5_RejectsNonPdf ==
    [][\A files \in FileLists :
         (Len(files) > 0 /\ UploadFiles(files)) =>
            IF files[1].name \in PdfNames
            THEN /\ sent' = <<Request("analyze-resume", [file |-> files[1]])>>
                 /\ toasts' = <<>>
            ELSE /\ sent' = <<>>
                 /\ pending' = pending
                 /\ toasts' = <<RejectionToast>>
                 /\ UNCHANGED <<resumeFile, resumeData, loading, currentStep>>]_vars

\* a file was rejected while an earlier upload is still in flight
C5_Witness ==
    /\ toasts = <<RejectionToast>>
    /\ sent = <<>>
    /\ currentStep = 2
    /\ resumeFile # Null
    /\ loading

IsGenerate(r) == r.endpoint = "generate-cover-letter"

\* C6: a generate-cover-letter request is issued, and a generation of the
\* page shown is in flight, only in states where resumeData is not null,
\* that is after a successful analyze-resume response.
C6_GenerateNeedsResume ==
    \/ resumeData # Null
    \/ /\ \A i \in 1..Len(sent) : ~IsGenerate(sent[i])
       /\ \A r \in OutstandingOf("generate-cover-letter") : ~r.mounted

\* the generate request has just been issued
C6_Witness ==
    /\ sent # <<>>
    /\ IsGenerate(sent[1])
    /\ currentStep = 3
    /\ resumeData # Null

\* C7: when a generate-cover-letter call of the page shown fails the flow
\* is in step 2, an error message is shown, and jobAnalysis and resumeData
\* hold the values they held when the call was issued; coverLetter is not
\* modified.
C7_GenerateFailureKeepsData ==
    [][\A r \in Outstanding, err \in Failures :
         (r.mounted /\ GenerateFail(r, err)) =>
            /\ currentStep' = 2
            /\ Len(toasts') = 1 /\ toasts'[1].level = "error"
            /\ jobAnalysis' = r.captured.job_analysis
            /\ resumeData' = r.captured.resume_data
            /\ coverLetter' = coverLetter]_vars

\* C9: when an analyze-job call of the page shown fails the flow is in
\* step 1, an error message is shown, jobAnalysis keeps its value and
\* loading is false.
C9_AnalyzeFailureStaysInStep1 ==
    [][\A r \in Outstanding, err \in Failures :
         (r.mounted /\ AnalyzeJobFail(r, err)) =>
            /\ currentStep' = 1
            /\ Len(toasts') = 1 /\ toasts'[1].level = "error"
            /\ jobAnalysis' = jobAnalysis
            /\ loading' = FALSE]_vars

JobAnalyses == {JobAnalysisOf(u) : u \in Urls}
ResumeAnalyses == {ResumeDataOf(f) : f \in Files}

GenerateBodyOk(body) ==
    /\ body.job_analysis \in JobAnalyses
    /\ body.resume_data \in ResumeAnalyses

\* C10: every generate-cover-letter request, when issued and while its
\* continuation holds the values it was issued with, carries a job_analysis
\* returned by analyze-job and a resume_data returned by analyze-resume,
\* neither of them null.
C10_GenerateCarriesBothResults ==
    /\ \A i \in 1..Len(sent) : IsGenerate(sent[i]) => GenerateBodyOk(sent[i].body)
    /\ \A r \in OutstandingOf("generate-cover-letter") :
         r.mounted => GenerateBodyOk(r.captured)

\* a generation is in flight for the second URL and the upper-case file
C10_Witness ==
    \E r \in OutstandingOf("generate-cover-letter") :
        /\ r.captured.job_analysis = JobAnalysisOf(UrlB)
        /\ r.captured.resume_data = ResumeDataOf([name |-> NameCvPDF])

----------------------------------------------------------------------------
(* Properties of the dashboard *)

IsDelete(r) == r.endpoint = "DELETE /applications/{id}"

\* C8: confirming a deletion issues exactly one DELETE call for that id,
\* and when the call succeeds on the dashboard the displayed list is the
\* list displayed before with exactly the record of that id removed, the
\* others in order.
C8_DeleteRemovesExactlyOne ==
    [][/\ ConfirmDelete =>
            sent' = <<Request("DELETE /applications/{id}", [id |-> deleteId])>>
       /\ \A r \in Outstanding :
            (r.mounted /\ DeleteOk(r)) =>
               applications' = filterOutId(applications, r.captured.deleteId)]_vars

----------------------------------------------------------------------------
(* Properties of the data the client forwards *)

CarriesAnalyses == {"generate-cover-letter", "generate-pdf", "applications"}

\* job analyses and resume data the service has handed to the client
ReceivedJobAnalyses == JobAnalyses \cup {a.job_analysis : a \in Apps}
ReceivedResumeData == ResumeAnalyses \cup {a.resume_data : a \in Apps}

\* C11: in every request the client sends to generate-cover-letter,
\* generate-pdf or POST /applications, from the generator or from the
\* dashboard, job_analysis and resume_data are values received from the
\* service, unmodified; the client constructs neither.
C11_ForwardsVerbatim ==
    \A i \in 1..Len(sent) :
        sent[i].endpoint \in CarriesAnalyses =>
            /\ sent[i].body.job_analysis \in ReceivedJobAnalyses
            /\ sent[i].body.resume_data \in ReceivedResumeData

----------------------------------------------------------------------------
(* Properties of error handling *)

\* the failure continuation of the call r, by its endpoint
FailureContinuation(r, err) ==
    CASE r.endpoint = "analyze-job" -> AnalyzeJobFail(r, err)
      [] r.endpoint = "analyze-resume" -> UploadFail(r, err)
      [] r.endpoint = "generate-cover-letter" -> GenerateFail(r, err)
      [] r.endpoint = "generate-pdf" ->
            DownloadFail(r, err) \/ DashDownloadFail(r, err)
      [] r.endpoint = "applications" -> SaveFail(r, err)
      [] r.endpoint = "GET /applications" -> FetchFail(r, err)
      [] r.endpoint = "DELETE /applications/{id}" -> DeleteFail(r, err)
      [] r.endpoint \in {"login", "register"} -> AuthFail(r, err)

\* the failure continuation of any call: the call leaves the bag and no
\* request is issued
FailedCall(r, err) ==
    /\ sent' = <<>>
    /\ pending' # pending
    /\ FailureContinuation(r, err)

\* The generic message of each action, listed by hand.
GenericOf(endpoint) ==
    CASE endpoint = "analyze-job" -> "Fehler bei der Analyse"
      [] endpoint = "analyze-resume" -> "Fehler bei der PDF-Analyse"
      [] endpoint = "generate-cover-letter" -> "Fehler bei der Generierung"
      [] endpoint = "generate-pdf" -> "Fehler beim PDF-Download"
      [] endpoint = "applications" -> "Fehler beim Speichern"
      [] endpoint = "GET /applications" -> "Fehler beim Laden der Bewerbungen"
      [] endpoint = "DELETE /applications/{id}" -> "Fehler beim Löschen"
      [] endpoint = "login" -> "Ein Fehler ist aufgetreten"
      [] endpoint = "register" -> "Ein Fehler ist aufgetreten"

\* The message of the response body when it carries one, else the generic.
BodyMessageOr(err, generic) ==
    IF err = WithDetail THEN "Dienst nicht erreichbar" ELSE generic

\* C12 as stated: every failed call shows exactly one error message, whose
\* text is the message of the response body when the response has one and
\* the action's generic message otherwise.
C12_UniformErrorMessage ==
    [][\A r \in Outstanding, err \in Failures :
         FailedCall(r, err) =>
            toasts' = <<Toast("error", BodyMessageOr(err, GenericOf(r.endpoint)))>>]_vars

\* The calls whose failure handler reads the response body.
ReadsBody == {"analyze-job", "analyze-resume", "generate-cover-letter",
              "login", "register"}

\* C12 amended: every failed call shows exactly one error message; for
\* analyze-job, analyze-resume, generate-cover-letter and login/register
\* its text is the message of the response body when the response has one
\* and the generic message otherwise; for generate-pdf, save, list and
\* delete it is always the action's generic message.
C12_OneErrorMessage ==
    [][\A r \in Outstanding, err \in Failures :
         FailedCall(r, err) =>
            toasts' = <<Toast("error",
                              IF r.endpoint \in ReadsBody
                              THEN BodyMessageOr(err, GenericOf(r.endpoint))
                              ELSE GenericOf(r.endpoint))>>]_vars

\* a failed login has shown the message of the response body
C12_Witness ==
    /\ LandingMounted
    /\ showAuth
    /\ ~authLoading
    /\ toasts = <<Toast("error", "Dienst nicht erreichbar")>>

----------------------------------------------------------------------------
(* Properties of overlapping calls *)

\* the success continuation of a call of the generator
SuccessOf(r) ==
    \/ AnalyzeJobOk(r)
    \/ UploadOk(r)
    \/ GenerateOk(r)
    \/ DownloadOk(r)
    \/ SaveOk(r)

\* the failure continuation of a call of the generator
FailureOf(r) ==
    \E err \in Failures :
        \/ AnalyzeJobFail(r, err)
        \/ UploadFail(r, err)
        \/ GenerateFail(r, err)
        \/ DownloadFail(r, err)
        \/ SaveFail(r, err)

\* the calls in flight without r, as they are once their page is left
StaleWithout(r) == UnmountAll(pending (-) SetToBag({r}))

\* C13: calls are never cancelled.  A call can be issued while an earlier
\* one is pending (a second upload); a handler that issues a call removes
\* no earlier call from the calls in flight, and leaving the page removes
\* none either; the response of every pending call of the generator,
\* success or failure, can arrive whatever page is shown; and the response
\* that arrives at the component is applied by its continuation: a resume
\* analysis that arrives is stored whatever was issued in between.
C13_NoCancellation ==
    /\ [][(PageStays /\ sent' # <<>> /\ pending' # pending) =>
            /\ NumPending' = NumPending + 1
            /\ \A r \in Outstanding : CopiesIn(r, pending') >= CopiesIn(r, pending)]_vars
    /\ [][~PageStays =>
            \/ /\ NumPending' >= NumPending
               /\ \A r \in Outstanding :
                    CopiesIn(Unmounted(r), pending') >= CopiesIn(r, pending)
            \/ \E r \in Outstanding :
                  /\ SaveOk(r)
                  /\ \A q \in BagToSet(StaleWithout(r)) :
                       CopiesIn(q, pending') >= CopiesIn(q, StaleWithout(r))]_vars
    /\ [](\A r \in Outstanding :
            r.page = "/generator" =>
                (ENABLED SuccessOf(r)) /\ (ENABLED FailureOf(r)))
    /\ [][\A r \in Outstanding :
            (r.mounted /\ UploadOk(r)) =>
                resumeData' = ResumeDataOf(r.captured.file)]_vars

\* two uploads are in flight, the second issued while the first was pending
C13_Witness ==
    /\ Mounted
    /\ CountOf("analyze-resume") = 2
    /\ sent # <<>>
    /\ sent[1].endpoint = "analyze-resume"

----------------------------------------------------------------------------
(* Properties of step 4 *)

\* a step of saveApplication or downloadPdf: the click or a continuation
SaveOrDownloadStep ==
    \/ ClickSave
    \/ ClickDownload
    \/ \E r \in Outstanding :
          \/ SaveOk(r)
          \/ DownloadOk(r)
          \/ \E err \in Failures : SaveFail(r, err) \/ DownloadFail(r, err)

\* the six variables and the payload built from them are as they were
FlowStateKept ==
    /\ UNCHANGED <<jobUrl, jobAnalysis, resumeFile, resumeData,
                   coverLetter, currentStep>>
    /\ ApplicationPayload' = ApplicationPayload

\* C14 as stated: saveApplication and downloadPdf, when triggered and when
\* their call succeeds or fails, leave jobUrl, jobAnalysis, resumeFile,
\* resumeData, coverLetter and currentStep unchanged, so the payload of a
\* retry is the payload of the first attempt.
C14_SaveDownloadKeepState ==
    [][SaveOrDownloadStep => FlowStateKept]_vars

\* C14 amended: saveApplication and downloadPdf, when triggered, when
\* their call fails and when the download succeeds, leave the six variables
\* unchanged, so the payload of a retry is the payload of the first
\* attempt.  The save that succeeds calls navigate('/dashboard'): the
\* generator shown is unmounted, its six variables are discarded, and the
\* dashboard is shown.
C14_SaveDownloadFrame ==
    [][SaveOrDownloadStep =>
          \/ FlowStateKept
          \/ /\ \E r \in Outstanding : SaveOk(r)
             /\ Mounted
             /\ route' = "/dashboard"
             /\ called' = <<Navigation("/dashboard")>>
             /\ MountGenerator]_vars

\* a save has failed in step 4 and the letter is still there
C14_Witness ==
    /\ Mounted
    /\ currentStep = 4
    /\ toasts = <<Toast("error", "Fehler beim Speichern")>>
    /\ coverLetter # EmptyLetter
    /\ ~loading

\* a step of downloadPdf: the click or a continuation
DownloadStep ==
    \/ ClickDownload
    \/ \E r \in Outstanding :
          DownloadOk(r) \/ \E err \in Failures : DownloadFail(r, err)

\* a step of saveApplication that stays on the page
SaveStep ==
    \/ ClickSave
    \/ \E r \in Outstanding, err \in Failures : SaveFail(r, err)

\* C15: in step 4 save and download share no mutable state: no step of
\* downloadPdf changes whether save can be triggered, and no step of
\* saveApplication changes whether download can be triggered.
C15_SaveDownloadIndependent ==
    [][/\ DownloadStep => (SaveBtnDisabled' = SaveBtnDisabled)
       /\ SaveStep => (DownloadBtnDisabled' = DownloadBtnDisabled)]_vars

----------------------------------------------------------------------------
(* Properties of the PDF download *)

\* The file name for each company name of the model, listed by hand.
ExpectedFileName(company_name) ==
    CASE company_name = "Acme" -> "Bewerbung_Acme.pdf"
      [] company_name = "" -> "Bewerbung_Dokument.pdf"
      [] company_name = Undefined -> "Bewerbung_Dokument.pdf"

\* the success continuation of a generate-pdf call, on either page
PdfSucceeded(r) ==
    /\ toasts' = <<Toast("success", "PDF heruntergeladen!")>>
    /\ DownloadOk(r) \/ DashDownloadOk(r)

\* C16: on a successful generate-pdf response, in the generator and in the
\* dashboard, exactly one file is offered for download; its name is
\* "Bewerbung_" + company name + ".pdf" when a non-empty company name is
\* available and "Bewerbung_Dokument.pdf" when it is absent or empty.
C16_DownloadFileName ==
    [][\A r \in Outstanding :
         PdfSucceeded(r) =>
            savedAs' = <<ExpectedFileName(r.captured.company_name)>>]_vars

\* the dashboard has downloaded the letter of a record without company name
C16_Witness ==
    /\ DashMounted
    /\ savedAs = <<"Bewerbung_Dokument.pdf">>
    /\ \E i \in 1..Len(applications) : applications[i].company_name = Undefined

----------------------------------------------------------------------------
(* Properties of the request count *)

\* the file lists whose first file is a PDF
PdfLists == {files \in FileLists : Len(files) > 0 /\ files[1].name \in PdfNames}

\* a user action that triggers a call: a click on an enabled control, the
\* choice of a PDF file, the submission of the auth form
UserTrigger ==
    \/ ClickAnalyzeJob
    \/ \E files \in PdfLists : UploadFiles(files)
    \/ ClickGenerate
    \/ ClickSave
    \/ ClickDownload
    \/ ConfirmDelete
    \/ \E i \in 1..MaxApps : ClickCardDownload(i)
    \/ ClickModalDownload
    \/ SubmitAuth

\* the dashboard is mounted: its effect fetches the list, once
DashboardMounts ==
    /\ route # "/dashboard"
    /\ route' = "/dashboard"
    /\ sent' = <<Request("GET /applications", [none |-> TRUE])>>

\* C17: there is no retry.  Every step of the application is one of: a
\* step without any request; a timer tick; a response arriving, which
\* settles one call and issues none, whether the call succeeded or failed;
\* a user action, which issues exactly one request; or the dashboard
\* being mounted, which issues its one GET.  Every triggering user action
\* issues exactly one request.
C17_NoRetry ==
    /\ [][\/ sent' = <<>> /\ pending' = pending
          \/ sent' = <<>> /\ NumPending' = NumPending - 1
          \/ sent' = <<>> /\ ~PageStays /\ NumPending' = NumPending
          \/ \E inc \in {5, 10} : Tick(inc)
          \/ UserTrigger
          \/ DashboardMounts]_vars
    /\ [][UserTrigger =>
              /\ Len(sent') = 1
              /\ NumPending' = NumPending + 1]_vars

\* an analysis has failed and the call is gone: nothing is in flight
C17_Witness ==
    /\ Mounted
    /\ toasts = <<Toast("error", "Fehler bei der Analyse")>>
    /\ sent = <<>>
    /\ NumPending = 0
    /\ jobAnalysis = Null

----------------------------------------------------------------------------
(* Properties of overlapping deletions *)

\* ids of the records in a list
IdsOf(list) == {list[i].id : i \in 1..Len(list)}

\* C18: a record whose delete call has succeeded never reappears: the
\* success continuation of a delete call removes the record of its id and
\* brings no record into the displayed list that was not in it, so that
\* once the overlapping deletions of A and B have both succeeded the list
\* contains neither.
C18_DeletedStaysDeleted ==
    [][\A r \in Outstanding :
         (r.mounted /\ DeleteOk(r)) =>
            /\ r.captured.deleteId \notin IdsOf(applications')
            /\ IdsOf(applications') \subseteq IdsOf(applications)]_vars

----------------------------------------------------------------------------
(* Properties of the data held by the generator *)

\* C19: whenever no resume upload is outstanding, resumeData is null or
\* the analysis of the file held in resumeFile; in particular a non-null
\* resumeData comes with a non-null resumeFile.
C19_ResumeDataMatchesFile ==
    CountOf("analyze-resume") = 0 =>
        \/ resumeData = Null
        \/ /\ resumeFile # Null
           /\ resumeData = ResumeDataOf(resumeFile)

\* C20: whenever the generator is in step 2, 3 or 4, jobAnalysis is the
\* service's analysis of the URL held in jobUrl.
C20_AnalysisMatchesUrl ==
    currentStep \in {2, 3, 4} => jobAnalysis = JobAnalysisOf(jobUrl)

\* C21: whenever the generator is in step 4, coverLetter is the response
\* to a generation request whose job_analysis and resume_data are the
\* current jobAnalysis and resumeData.
C21_LetterMatchesData ==
    currentStep = 4 =>
        coverLetter = CoverLetterOf([job_analysis |-> jobAnalysis,
                                     resume_data |-> resumeData])

\* C22: step 3 is never a resting state: in every state with
\* currentStep = 3 at least one generate-cover-letter call is outstanding.
C22_Step3HasGeneration ==
    currentStep = 3 =>
        \E r \in OutstandingOf("generate-cover-letter") : r.mounted

\* step 3 with a generation and a late upload both in flight
C22_Witness ==
    /\ Mounted
    /\ currentStep = 3
    /\ CountOf("generate-cover-letter") = 1
    /\ CountOf("analyze-resume") = 1

\* C23: when every request eventually receives a response, every entry
\* into step 3 is eventually followed by step 4 or by step 2, and loading
\* eventually becomes false again.
C23_Step3Ends ==
    /\ (currentStep = 3) ~> (currentStep \in {2, 4})
    /\ loading ~> ~loading

\* C23 amended: when every request eventually receives a response, every
\* entry into step 3 is eventually followed by step 4 or by step 2, unless
\* the generator is left while the generation is pending (by the navigation
\* bar, or by a save that succeeds in the meantime); and loading eventually
\* becomes false again.
C23_Step3EndsOrPageLeft ==
    /\ (currentStep = 3) ~> (currentStep \in {2, 4} \/ ~Mounted)
    /\ loading ~> ~loading

\* a save has succeeded during step 3: the dashboard is shown and the
\* generation is still in flight, its page unmounted
C23_Witness ==
    /\ DashMounted
    /\ toasts = <<Toast("success", "Bewerbung gespeichert!")>>
    /\ \E r \in OutstandingOf("generate-cover-letter") : ~r.mounted

----------------------------------------------------------------------------
(* Properties of the simulated-progress timers *)

\* C24: every simulated-progress timer is stopped when its call completes,
\* on success and on failure alike: whenever no call is outstanding, no
\* timer is running and progress is 0.
C24_TimersStopped ==
    NumPending = 0 =>
        /\ \A inc \in {5, 10} : ~TimerRunning(inc)
        /\ progress = 0

----------------------------------------------------------------------------
(* Properties of the failure continuations *)

\* C25: when an analyze-resume call of the page shown fails the flow is in
\* step 2, an error message is shown, resumeFile is null, resumeData keeps
\* its value and loading is false.
C25_UploadFailureStaysInStep2 ==
    [][\A r \in Outstanding, err \in Failures :
         (r.mounted /\ UploadFail(r, err)) =>
            /\ currentStep' = 2
            /\ Len(toasts') = 1 /\ toasts'[1].level = "error"
            /\ resumeFile' = Null
            /\ resumeData' = resumeData
            /\ loading' = FALSE]_vars

\* C25 amended: when an analyze-resume call of the page shown fails the
\* step is left as it is (step 2 unless the user went back or another
\* response moved the flow while the call was pending), exactly one error
\* message is shown, resumeFile is null, resumeData keeps its value and
\* loading is false.
C25_UploadFailureKeepsStep ==
    [][\A r \in Outstanding, err \in Failures :
         (r.mounted /\ UploadFail(r, err)) =>
            /\ currentStep' = currentStep
            /\ Len(toasts') = 1 /\ toasts'[1].level = "error"
            /\ resumeFile' = Null
            /\ resumeData' = resumeData
            /\ loading' = FALSE]_vars

\* a second upload has failed in step 2: the file is gone, the analysis of
\* the first file is still held
C25_Witness ==
    /\ Mounted
    /\ currentStep = 2
    /\ toasts = <<Toast("error", "Fehler bei der PDF-Analyse")>>
    /\ resumeFile = Null
    /\ resumeData # Null
    /\ ~loading
    /\ NumPending = 0

(* Properties of the dashboard *)

\* C26: when a DELETE call fails the displayed list is unchanged, exactly
\* one error message is shown and deleteId is reset to null; deleteId is
\* null after deleteApplication completes, on success as on failure.
C26_DeleteFailureKeepsList ==
    [][/\ \A r \in Outstanding, err \in Failures :
            DeleteFail(r, err) =>
               /\ Displayed' = Displayed
               /\ applications' = applications
               /\ toasts' = <<Toast("error", "Fehler beim Löschen")>>
               /\ deleteId' = NullId
       /\ \A r \in Outstanding :
            DeleteOk(r) => deleteId' = NullId]_vars

\* a deletion has failed: the cards are all still there, the dialog is closed
C26_Witness ==
    /\ DashMounted
    /\ toasts = <<Toast("error", "Fehler beim Löschen")>>
    /\ Len(Displayed) = MaxApps
    /\ deleteId = NullId
    /\ NumPending = 0

\* the fetch issued by the dashboard that is shown is in flight
FetchInFlight == \E r \in OutstandingOf("GET /applications") : r.mounted

\* C27: mounting the dashboard issues exactly one GET /applications and no
\* later step issues another; while the dashboard is shown, loading is true
\* exactly while that call is outstanding and never becomes true again; a
\* successful response makes the list the response data, a failed one
\* leaves the list empty and shows an error.
C27_InitialFetch ==
    /\ sent = <<Request("GET /applications", [none |-> TRUE])>>
    /\ dashLoading = TRUE
    /\ [](DashMounted => (dashLoading <=> FetchInFlight))
    /\ [](CountOf("GET /applications") <= 1)
    /\ [][/\ \A i \in DOMAIN sent' : sent'[i].endpoint # "GET /applications"
          /\ (PageStays /\ ~dashLoading) => ~dashLoading'
          /\ \A r \in Outstanding, list \in ServerLists :
               (r.mounted /\ FetchOk(r, list)) =>
                  /\ applications' = list
                  /\ toasts' = <<>>
                  /\ ~dashLoading'
          /\ \A r \in Outstanding, err \in Failures :
               FetchFail(r, err) =>
                  /\ applications' = <<>>
                  /\ toasts' = <<Toast("error", "Fehler beim Laden der Bewerbungen")>>
                  /\ r.mounted => ~dashLoading']_vars

\* the initial fetch has failed: empty list, error shown, loading over
C27_Witness ==
    /\ DashMounted
    /\ toasts = <<Toast("error", "Fehler beim Laden der Bewerbungen")>>
    /\ applications = <<>>
    /\ ~dashLoading
    /\ NumPending = 0

(* Properties of saving *)

\* the data of the flow
FlowData == <<jobUrl, jobAnalysis, resumeFile, resumeData, coverLetter>>

\* C28: saveApplication navigates to the dashboard exactly when the call
\* succeeds, not when it is triggered and not when the call fails; after a
\* failed save the flow is in step 4 with the same data, exactly one error
\* is shown and loading is false.
C28_SaveFailureStaysInStep4 ==
    [][/\ ClickSave => PageStays
       /\ \A r \in Outstanding : SaveOk(r) => route' = "/dashboard"
       /\ \A r \in Outstanding, err \in Failures :
            SaveFail(r, err) =>
               /\ route' = route
               /\ toasts' = <<Toast("error", "Fehler beim Speichern")>>
               /\ r.mounted =>
                     /\ currentStep' = 4
                     /\ FlowData' = FlowData
                     /\ loading' = FALSE]_vars

\* C28 amended: as above, except that the failed save leaves the step as it
\* is when the response arrives (step 4 unless the user pressed Edit while
\* the call was pending).
C28_SaveFailureKeepsStep ==
    [][/\ ClickSave => PageStays
       /\ \A r \in Outstanding : SaveOk(r) => route' = "/dashboard"
       /\ \A r \in Outstanding, err \in Failures :
            SaveFail(r, err) =>
               /\ route' = route
               /\ toasts' = <<Toast("error", "Fehler beim Speichern")>>
               /\ r.mounted =>
                     /\ currentStep' = currentStep
                     /\ FlowData' = FlowData
                     /\ loading' = FALSE]_vars

\* a save has failed: still on the generator page in step 4 with the letter
C28_Witness ==
    /\ Mounted
    /\ currentStep = 4
    /\ toasts = <<Toast("error", "Fehler beim Speichern")>>
    /\ coverLetter # EmptyLetter
    /\ ~loading
    /\ NumPending = 0

(* Properties of the landing page and the auth modal *)

\* what C29 says of submitting and of a successful call: the call goes to
\* login in mode 'login' and to register in mode 'register', with what the
\* form holds; success calls onClose and then navigate('/generator'), so
\* that the modal is closed and the generator shown; a failure navigates
\* nowhere and shows one error; loading is false after either outcome
SubmitAndSuccess ==
    /\ SubmitAuth =>
          /\ Len(sent') = 1
          /\ sent'[1].endpoint = mode
          /\ mode = "login" =>
                sent'[1].body = [email |-> formData.email,
                                 password |-> formData.password]
          /\ mode = "register" =>
                sent'[1].body = [email |-> formData.email,
                                 password |-> formData.password,
                                 name |-> formData.name]
    /\ \A r \in Outstanding :
         AuthOk(r) =>
            /\ called' = <<OnClose, Navigation("/generator")>>
            /\ showAuth' = FALSE
            /\ route' = "/generator"
            /\ authLoading' = FALSE
    /\ \A r \in Outstanding, err \in Failures :
         AuthFail(r, err) =>
            /\ route' = route
            /\ \A i \in 1..Len(called') : called'[i].call # "navigate"
            /\ Len(toasts') = 1 /\ toasts'[1].level = "error"
            /\ authLoading' = FALSE

\* C29: submitting calls login in mode 'login' and register in mode
\* 'register'; success closes the modal and navigates to the generator;
\* after a failure the modal is open, there is no navigation and one error
\* is shown; loading is false after both; submit is disabled while loading.
C29_AuthFailureModalOpen ==
    /\ [](authLoading => ~ENABLED SubmitAuth)
    /\ [][/\ SubmitAndSuccess
          /\ \A r \in Outstanding, err \in Failures :
               AuthFail(r, err) => showAuth' = TRUE]_vars

\* C29 amended: as above, except that a failure does not call onClose and
\* leaves the modal as it is when the response arrives: open, unless the
\* visitor has dismissed it while the call was pending and has not opened
\* it again.
C29_AuthFailureLeavesModal ==
    /\ [](authLoading => ~ENABLED SubmitAuth)
    /\ [][/\ SubmitAndSuccess
          /\ \A r \in Outstanding, err \in Failures :
               AuthFail(r, err) =>
                  /\ called' = <<>>
                  /\ showAuth' = showAuth]_vars

\* a registration has failed: the modal is open with the form as submitted
C29_Witness ==
    /\ LandingMounted
    /\ showAuth
    /\ mode = "register"
    /\ formData = FilledForm
    /\ Len(toasts) = 1 /\ toasts[1].level = "error"
    /\ ~authLoading
    /\ NumPending = 0

\* C30: whenever the landing page opens the auth modal, the modal's mode is
\* the mode the page requested: 'register' after register-nav-btn or after
\* the get-started action of a visitor, 'login' after login-nav-btn.
C30_ModalOpensInRequestedMode ==
    [][/\ \A m \in AuthEndpoints :
            OpenAuth(m) => showAuth' /\ mode' = m
       /\ (handleGetStarted /\ ~isAuthenticated) =>
            showAuth' /\ mode' = "register"]_vars

\* C31: while the dashboard is shown, an open delete confirmation is
\* dismissed (deleteId becomes null) only by the user confirming or
\* cancelling that dialog, or by the completion of the delete call for the
\* application the dialog is open for; the completion of a delete call for
\* another application never dismisses it.
C31_DialogDismissedByOwnCall ==
    [][(PageStays /\ deleteId # NullId /\ deleteId' = NullId) =>
          \/ CancelDelete
          \/ ConfirmDelete
          \/ \E r \in OutstandingOf("DELETE /applications/{id}") :
               /\ r.captured.deleteId = deleteId
               /\ \/ DeleteOk(r)
                  \/ \E err \in Failures : DeleteFail(r, err)]_vars

\* the delete, view and download actions of the dashboard
CardAction ==
    \/ \E i \in 1..MaxApps : OpenDelete(i)
    \/ ConfirmDelete
    \/ \E i \in 1..MaxApps : OpenView(i)
    \/ \E i \in 1..MaxApps : ClickCardDownload(i)
    \/ ClickModalDownload

\* C32: while the initial GET /applications is outstanding no delete, view
\* or download action can be triggered: no dialog or preview is open and the
\* GET is the only call in flight; so the response of the fetch always
\* arrives at the initial empty list, with no delete call issued before it.
C32_NoActionBeforeInitialFetch ==
    /\ [](CountOf("GET /applications") >= 1 =>
             /\ ~ENABLED CardAction
             /\ deleteId = NullId
             /\ selectedApp = Null
             /\ NumPending = 1
             /\ applications = <<>>)
    /\ [][/\ CardAction => CountOf("GET /applications") = 0
          /\ \A r \in Outstanding, list \in ServerLists :
               FetchOk(r, list) =>
                  /\ applications = <<>>
                  /\ CountOf("DELETE /applications/{id}") = 0]_vars

\* after the fetch a delete has modified the list and no fetch is left
\* that could overwrite it
C32_Witness ==
    /\ DashMounted
    /\ toasts = <<Toast("success", "Bewerbung gelöscht")>>
    /\ Len(applications) = MaxApps - 1
    /\ CountOf("GET /applications") = 0
    /\ NumPending = 0

====
